---- MODULE Spec2Model ----
(***************************************************************************)
(* A model of the quote server: the quotes/tags store of src/db.rs as it   *)
(* is driven by the JSON API of src/api.rs, one SQL statement per step,    *)
(* and the bearer-token service of src/authjwt.rs.                         *)
(*                                                                         *)
(* Strings are sequences of one-character strings, so that trim, the       *)
(* lexical order and emptiness are computed and not assumed.               *)
(***************************************************************************)
EXTENDS Integers, Sequences, FiniteSets, Bags, TLC

(***************************************************************************)
(* Bounds of the model.                                                    *)
(***************************************************************************)
\* The request handlers that run concurrently (tasks on the connection pool).
Procs == {"w1", "w2"}
\* How many times the clock advances in the store specification.
MaxTicks == 1
\* How many quote ids the store hands out.
MaxQuotes == 2
\* How many requests are taken in all.
MaxRequests == 2
\* Clock ticks per second: DateTime<Utc> is finer than the token's seconds.
TicksPerSec == 2
\* How many times the clock advances in the token specification.
MaxAuthTicks == 4
\* How many tokens are issued.
MaxIssued == 1

(***************************************************************************)
(* Program constants.                                                      *)
(***************************************************************************)
\* TimeDelta::days(1), in seconds.
TokenLifetime == 86400
\* The leeway of Validation::new(..): jsonwebtoken's default, in seconds.
Leeway == 60

\* The clock's first value: late enough for every expiration tried to be >= 0.
StartTime == TicksPerSec * (TokenLifetime + Leeway + 2)

(***************************************************************************)
(* Strings.                                                                *)
(***************************************************************************)
CharCode(c) ==
  CASE c = " " -> 32
    [] c = "a" -> 97
    [] c = "b" -> 98
    [] c = "s" -> 115
    [] c = "t" -> 116
    [] c = "x" -> 120
    [] c = "y" -> 121

IsSpace(c) == c = " "

RECURSIVE TrimStart(_)
TrimStart(s) ==
  IF s # <<>> /\ IsSpace(Head(s)) THEN TrimStart(Tail(s)) ELSE s

RECURSIVE TrimEnd(_)
TrimEnd(s) ==
  IF s # <<>> /\ IsSpace(s[Len(s)]) THEN TrimEnd(SubSeq(s, 1, Len(s) - 1)) ELSE s

\* str::trim
trim(s) == TrimEnd(TrimStart(s))

\* The order of String: byte by byte, a proper prefix first.
RECURSIVE StrLess(_, _)
StrLess(a, b) ==
  IF a = <<>> THEN b # <<>>
  ELSE IF b = <<>> THEN FALSE
  ELSE IF Head(a) = Head(b) THEN StrLess(Tail(a), Tail(b))
  ELSE CharCode(Head(a)) < CharCode(Head(b))

\* A sequence of strings is in ascending order (equal neighbours allowed).
IsSorted(l) ==
  \A i \in 1..(Len(l) - 1) : l[i] = l[i + 1] \/ StrLess(l[i], l[i + 1])

(***************************************************************************)
(* The tag normalisation of create_quote and update_quote.                 *)
(***************************************************************************)
\* request.tags is an Option<Vec<String>>.
NoTags == [some |-> FALSE, list |-> <<>>]
SomeTags(l) == [some |-> TRUE, list |-> l]

\* The normalisation as it would be without the trim.
unique_tags_untrimmed(tags) ==
  IF tags.some
    THEN {tags.list[i] : i \in DOMAIN tags.list} \ {<<>>}
    ELSE {}

\* tags.into_iter().map(trim).filter(non-empty).collect::<HashSet<_>>()
unique_tags(tags) ==
  IF tags.some
    THEN {trim(tags.list[i]) : i \in DOMAIN tags.list} \ {<<>>}
    ELSE {}

\* tag_names = unique_tags.into_iter().collect(); tag_names.sort()
RECURSIVE sort(_)
sort(S) ==
  IF S = {} THEN <<>>
  ELSE LET m == CHOOSE x \in S : \A y \in S \ {x} : StrLess(x, y)
       IN  <<m>> \o sort(S \ {m})

tag_names(tags) == sort(unique_tags(tags))

(***************************************************************************)
(* The store: the quotes table is a function from the ids of its rows, the *)
(* tags table a bag of rows (quote_id, name).  A tag row's own id and      *)
(* timestamps are read by no projection and are left out.                  *)
(***************************************************************************)
QuoteRow(id, quote, source, created_at, updated_at) ==
  [id |-> id, quote |-> quote, source |-> source,
   created_at |-> created_at, updated_at |-> updated_at]

TagRow(quote_id, name) == [quote_id |-> quote_id, name |-> name]

\* INSERT INTO quotes (quote, source, created_at, updated_at) VALUES (..)
InsertQuote(qs, id, quote, source, at) ==
  [i \in DOMAIN qs \cup {id} |->
     IF i = id THEN QuoteRow(id, quote, source, at, at) ELSE qs[i]]

\* UPDATE quotes SET quote = ?, source = ?, updated_at = ? WHERE id = ?
UpdateQuoteRow(qs, id, quote, source, at) ==
  [i \in DOMAIN qs |->
     IF i = id THEN QuoteRow(id, quote, source, qs[i].created_at, at) ELSE qs[i]]

\* The rows of tags WHERE quote_id = ?
TagsWhere(ts, id) ==
  LET keep == {r \in BagToSet(ts) : r.quote_id = id}
  IN  [r \in keep |-> ts[r]]

\* The statement as it would be without its WHERE clause.
DeleteTagsWhere_all(ts, id) == EmptyBag

\* DELETE FROM tags WHERE quote_id = ?
DeleteTagsWhere(ts, id) ==
  LET keep == {r \in BagToSet(ts) : r.quote_id # id}
  IN  [r \in keep |-> ts[r]]

\* INSERT INTO tags (quote_id, name, ..) VALUES (..)
InsertTag(ts, id, name) == ts (+) SetToBag({TagRow(id, name)})

\* tags.quote_id REFERENCES quotes(id): an insert needs its quote row.
ForeignKeyHolds(qs, id) == id \in DOMAIN qs

\* The schema as it would be without the cascade.
CascadeDelete_none(ts, id) == ts

\* .. ON DELETE CASCADE: the rows of tags that go with a deleted quote row.
CascadeDelete(ts, id) == DeleteTagsWhere(ts, id)

\* delete_quote as it would be if its DELETE named no row.
DeleteQuoteRow_none(qs, id) == qs

\* DELETE FROM quotes WHERE id = ?
DeleteQuoteRow(qs, id) == [i \in DOMAIN qs \ {id} |-> qs[i]]

\* The orders in which a SELECT without ORDER BY may return the rows of a bag.
RECURSIVE RowOrders(_)
RowOrders(B) ==
  IF BagToSet(B) = {} THEN {<<>>}
  ELSE UNION {{<<r>> \o s : s \in RowOrders(B (-) SetToBag({r}))} : r \in BagToSet(B)}

\* tags.into_iter().map(|t| t.name).collect(), for each order of the rows
TagNameLists(ts, id) ==
  {[i \in DOMAIN l |-> l[i].name] : l \in RowOrders(TagsWhere(ts, id))}

QuoteWithTags(row, names) ==
  [id |-> row.id, quote |-> row.quote, source |-> row.source,
   created_at |-> row.created_at, updated_at |-> row.updated_at, tags |-> names]

\* What GetAll lists of a quote row of the store: the row with its tags in
\* one of the orders of the rows.
Listings(qs, ts, id) == {QuoteWithTags(qs[id], names) : names \in TagNameLists(ts, id)}

(***************************************************************************)
(* The token service.                                                      *)
(***************************************************************************)
\* DateTime::timestamp: whole seconds.
timestamp(t) == t \div TicksPerSec

\* A token: whether it parses as a JWT with Claims, the key that signed it,
\* and its exp claim.
Token(wellformed, key, exp) == [wellformed |-> wellformed, key |-> key, exp |-> exp]

\* decode as it would be with the signature validation switched off.
decode_unsigned(token, at) ==
  /\ token.wellformed
  /\ ~(token.exp < timestamp(at) - Leeway)

\* jsonwebtoken::decode under Validation::new(HS512): structure, signature,
\* then exp against the clock with the default leeway.
decode(token, at) ==
  /\ token.wellformed
  /\ token.key = "signing"
  /\ ~(token.exp < timestamp(at) - Leeway)

\* validate_token as it would be if it rejected at the expiration second.
validate_token_strict(token, at) ==
  IF decode(token, at)
    THEN IF token.exp <= timestamp(at) THEN "TokenExpired" ELSE "Ok"
    ELSE "InvalidToken"

\* validate_token: "Ok", or the AuthError.
validate_token(token, at) ==
  IF decode(token, at)
    THEN IF token.exp < timestamp(at) THEN "TokenExpired" ELSE "Ok"
    ELSE "InvalidToken"

\* make_jwt_token as it would be without the comparison of the password.
make_jwt_token_open(password, at) ==
  [status |-> "Ok",
   token |-> Token(TRUE, "signing", timestamp(at + TicksPerSec * TokenLifetime))]

\* make_jwt_token: the token issued at a time, or the AuthError.
make_jwt_token(password, at) ==
  IF password # "reg_key"
    THEN [status |-> "WrongCredentials", token |-> Token(FALSE, "none", 0)]
    ELSE [status |-> "Ok",
          token |-> Token(TRUE, "signing", timestamp(at + TicksPerSec * TokenLifetime))]

\* The Authorization header of a request.
NoHeader == [kind |-> "none", token |-> Token(FALSE, "none", 0)]
OtherHeader == [kind |-> "basic", token |-> Token(FALSE, "none", 0)]
Bearer(token) == [kind |-> "bearer", token |-> token]

\* The extractor as it would be if it took any Authorization header for a token.
from_request_parts_unchecked(header, ext, at) ==
  IF header.kind = "none" THEN "MissingCredentials" ELSE "Ok"

\* The extractor as it would be with the two errors of the header mixed up.
from_request_parts_swapped(header, ext, at) ==
  IF header.kind = "none" THEN "InvalidToken"
  ELSE IF header.kind # "bearer" THEN "MissingCredentials"
  ELSE IF ~ext THEN "InvalidToken"
  ELSE validate_token(header.token, at)

\* impl FromRequestParts for Claims: "Ok", or the AuthError of the rejection.
from_request_parts(header, ext, at) ==
  IF header.kind = "none" THEN "MissingCredentials"
  ELSE IF header.kind # "bearer" THEN "InvalidToken"
  ELSE IF ~ext THEN "InvalidToken"
  ELSE validate_token(header.token, at)

(***************************************************************************)
(* The state.                                                              *)
(***************************************************************************)
VARIABLES
  quotes,     \* the quotes table: id -> row
  tags,       \* the tags table: a bag of (quote_id, name)
  next_id,    \* the rowid the next INSERT INTO quotes gets
  now,        \* the clock, Utc::now(), in ticks
  ticks,      \* how many times the clock has advanced
  jwt_ext,    \* whether the JwtKeys are in the request extensions
  pc,         \* per handler: the statement it executes next
  req,        \* per handler: the request and the locals of the db function
  result,     \* per handler: what the finished call returned
  served,     \* how many requests have been taken
  issued,     \* the tokens /auth has issued, each with its time of issue
  validated,  \* the last validate_token call: token, time, outcome
  registered, \* the last answer of POST /auth: password, outcome, token
  extracted,  \* the last run of the Claims extractor: header, time, outcome
  normalized, \* the last tag list normalised: input, output, output again
  searched    \* the last search_quotes call: parameters, match mode, output

store == <<quotes, tags, next_id>>
clock == <<now, ticks>>
handlers == <<pc, req, result, served>>
tokens == <<issued, validated>>
calls == <<registered, extracted, normalized, searched>>
vars == <<quotes, tags, next_id, now, ticks, jwt_ext, pc, req, result, served, issued, validated,
          registered, extracted, normalized, searched>>

(***************************************************************************)
(* The inputs tried.                                                       *)
(***************************************************************************)
\* The ids a request may name.
Ids == 1..MaxQuotes

\* The request bodies of Create and Update: tags absent, one tag, tags with
\* duplicates, padded and blank entries; blank text, empty source.
Body(quote, source, tg) == [quote |-> quote, source |-> source, tags |-> tg]

BodyInputs ==
  { Body(<<"x">>, <<"s">>, NoTags),
    Body(<<"x">>, <<"s">>, SomeTags(<< <<"a">> >>)),
    Body(<<"y">>, <<"t">>, SomeTags(<< <<" ", "b">>, <<"a">>, <<"a", " ">>, <<" ">> >>)),
    Body(<<" ">>, <<"s">>, NoTags),
    Body(<<"x">>, <<>>, SomeTags(<< <<"a">> >>)) }

\* The tokens a client may present at a time: malformed, signed with another
\* key, long expired, just expired, expiring now, fresh.
ExpOffsets == {0 - (Leeway + 1), 0 - 1, 0}

TokenInputs(at) ==
  {Token(FALSE, "none", 0)} \cup
  {Token(TRUE, k, timestamp(at) + d) : k \in {"signing", "other"}, d \in ExpOffsets}

HeaderInputs(at) ==
  {NoHeader, OtherHeader} \cup {Bearer(t) : t \in TokenInputs(at)}

PasswordInputs == {"reg_key", "guess"}

\* SearchParams of api.rs: quote, source and tag are Option<String>.
Absent == [some |-> FALSE, value |-> <<>>]
Given(s) == [some |-> TRUE, value |-> s]
SearchParams(quote, source, tag) == [quote |-> quote, source |-> source, tag |-> tag]

\* Each criterion absent, empty, or one of two strings.
ParamInputs ==
  { SearchParams(q, s, t) :
      q \in {Absent, Given(<<>>), Given(<<"x">>), Given(<<"y">>)},
      s \in {Absent, Given(<<>>), Given(<<"s">>), Given(<<"t">>)},
      t \in {Absent, Given(<<>>), Given(<<"a">>), Given(<<"b">>)} }

(***************************************************************************)
(* Handlers.                                                               *)
(***************************************************************************)
IdleReq ==
  [op |-> "none", id |-> 0, quote |-> <<>>, source |-> <<>>,
   tags_some |-> FALSE, unique_tags |-> {}, todo |-> {},
   now |-> 0, created_at |-> 0, rows |-> <<>>, acc |-> <<>>,
   rows_affected |-> 0,
   \* what the checks remember of the request
   seq |-> 0, header |-> NoHeader, mutated |-> FALSE, old |-> <<>>]

NoResult ==
  [op |-> "none", id |-> 0, status |-> "none", http |-> 0, body |-> <<>>,
   rows_affected |-> 0, seq |-> 0, mutated |-> FALSE]

Statements ==
  {"c_insert_quote", "c_insert_tag",
   "u_select", "u_update", "u_delete_tags", "u_insert_tag",
   "d_select", "d_delete",
   "g_select", "g_tags",
   "a_select", "a_tags",
   "r_count", "r_select", "r_tags"}

InFlight(p) == pc[p] \in Statements

\* The handler can take a request: it has none, or has answered its last one.
Free(p) == pc[p] \in {"idle", "done"}

AuthErrors == {"MissingCredentials", "InvalidToken", "TokenExpired", "WrongCredentials"}

\* impl IntoResponse for AuthError: the status code of each error.
into_response(error) ==
  CASE error = "TokenCreation" -> 500
    [] error = "InvalidToken" -> 400
    [] error = "WrongCredentials" -> 401
    [] error = "MissingCredentials" -> 400
    [] error = "TokenExpired" -> 401

\* The handler as it would be if it took Ok(None) and Ok(false) for errors.
status_code_strict(op, status) ==
  IF status \in AuthErrors THEN into_response(status)
  ELSE IF status = "BadRequest" THEN 400
  ELSE IF status = "Ok" THEN (IF op = "create" THEN 201 ELSE IF op = "delete" THEN 204 ELSE 200)
  ELSE 500

\* The status code a handler of api.rs answers with: the rejection of the
\* extractor, the 400 of the body checks, or the match on the db function's
\* result.  get_all_quotes and get_random_quote `.expect` the result: on a
\* storage error the task panics and there is no response (0).
status_code(op, status) ==
  IF status \in AuthErrors THEN into_response(status)
  ELSE IF status = "BadRequest" THEN 400
  ELSE IF status = "NotFound" THEN 404
  ELSE IF status = "StorageError" THEN (IF op \in {"all", "random"} THEN 0 ELSE 500)
  ELSE IF op = "create" THEN 201
  ELSE IF op = "delete" THEN 204
  ELSE 200

\* The call returns: its locals are dropped and the result is kept.
Return(p, r, status, body) ==
  /\ pc' = [pc EXCEPT ![p] = "done"]
  /\ req' = [req EXCEPT ![p] = IdleReq]
  /\ result' = [result EXCEPT ![p] =
       [op |-> r.op, id |-> r.id, status |-> status,
        http |-> status_code(r.op, status), body |-> body,
        rows_affected |-> r.rows_affected, seq |-> r.seq,
        mutated |-> r.mutated]]
  /\ served' = served

\* The request is answered before the db function is entered.
Reject(p, op, status) ==
  /\ pc' = [pc EXCEPT ![p] = "done"]
  /\ req' = req
  /\ result' = [result EXCEPT ![p] =
       [NoResult EXCEPT !.op = op, !.status = status, !.http = status_code(op, status)]]
  /\ served' = served + 1

\* What a read of quote id would report of the store as it is, the tags as a bag.
Version(qs, ts, id) ==
  IF id \in DOMAIN qs
    THEN <<[quote |-> qs[id].quote, source |-> qs[id].source,
            tags |-> [n \in {r.name : r \in BagToSet(TagsWhere(ts, id))} |->
                        ts[TagRow(id, n)]]]>>
    ELSE <<>>

\* A request arrives when the clock reads at: the time of the last arrival or
\* one tick later.
Arrivals == {now} \cup (IF ticks < MaxTicks THEN {now + 1} ELSE {})

Arrive(at) ==
  /\ now' = at
  /\ ticks' = ticks + (at - now)

\* The db function is entered: let now = Utc::now(), then its first statement.
\* The request remembers its number, an update the version of its quote it
\* started from.
Enter(p, r, first, at) ==
  /\ pc' = [pc EXCEPT ![p] = first]
  /\ req' = [req EXCEPT ![p] =
       [r EXCEPT !.now = at, !.seq = served + 1,
                 !.old = IF r.op = "update" THEN Version(quotes, tags, r.id) ELSE <<>>]]
  /\ result' = [result EXCEPT ![p] = NoResult]
  /\ served' = served + 1

\* The checks of the body as they would be without the trim.
BodyInvalid_untrimmed(in) == in.quote = <<>> \/ in.source = <<>>

\* api::create_quote / api::update_quote: "Quote text cannot be empty", ..
BodyInvalid(in) == trim(in.quote) = <<>> \/ trim(in.source) = <<>>

\* The quote rows handed out and those about to be.
IdsTaken == (next_id - 1) + Cardinality({p \in Procs : pc[p] = "c_insert_quote"})

\* init_db: the quotes table was empty and import_quotes_from_csv filled it, here
\* with one record, its tags split at the commas, trimmed and made unique.
ImportedQuote == Body(<<"x">>, <<"s">>, SomeTags(<< <<"a">>, <<" ", "a">> >>))

\* No call of the kind has been made.
NoRegistration ==
  [password |-> "none", status |-> "none", http |-> 0, token |-> Token(FALSE, "none", 0)]

NoExtraction ==
  [header |-> NoHeader, at |-> 0, outcome |-> "none", validate_token |-> FALSE]

NoNormalization == [done |-> FALSE, input |-> NoTags, output |-> <<>>, again |-> <<>>]

NoSearch ==
  [done |-> FALSE, params |-> SearchParams(Absent, Absent, Absent), whole |-> FALSE,
   output |-> <<>>]

Init ==
  /\ quotes = InsertQuote(<<>>, 1, ImportedQuote.quote, ImportedQuote.source, StartTime)
  /\ tags = SetToBag({TagRow(1, t) : t \in unique_tags(ImportedQuote.tags)})
  /\ next_id = 2
  /\ now = StartTime
  /\ ticks = 0
  /\ jwt_ext \in BOOLEAN
  /\ pc = [p \in Procs |-> "idle"]
  /\ req = [p \in Procs |-> IdleReq]
  /\ result = [p \in Procs |-> NoResult]
  /\ served = 0
  /\ issued = {}
  /\ validated = [token |-> Token(FALSE, "none", 0), at |-> 0, outcome |-> "none"]
  /\ registered = NoRegistration
  /\ extracted = NoExtraction
  /\ normalized = NoNormalization
  /\ searched = NoSearch

(***************************************************************************)
(* POST /api/v1/quotes                                                     *)
(***************************************************************************)
\* The locals of create_quote and update_quote for a request body.
Locals(op, id, h, in) ==
  [IdleReq EXCEPT !.op = op, !.id = id, !.quote = in.quote, !.source = in.source,
                  !.tags_some = in.tags.some, !.unique_tags = unique_tags(in.tags),
                  !.todo = unique_tags(in.tags), !.header = h]

\* api::create_quote up to the first statement of db::create_quote.
StartCreate(p) ==
  /\ Free(p)
  /\ served < MaxRequests
  /\ \E at \in Arrivals :
     /\ Arrive(at)
     /\ \E h \in HeaderInputs(at) :
       LET auth == from_request_parts(h, jwt_ext, at) IN
       IF auth # "Ok" THEN Reject(p, "create", auth)
       ELSE \E in \in BodyInputs :
              IF BodyInvalid(in) THEN Reject(p, "create", "BadRequest")
              ELSE /\ IdsTaken < MaxQuotes
                   /\ Enter(p, Locals("create", 0, h, in), "c_insert_quote", at)
  /\ UNCHANGED <<store, jwt_ext, tokens, calls>>

\* The QuoteWithTags that create_quote and update_quote build from the request.
Built(r, id, created_at) ==
  [id |-> id, quote |-> r.quote, source |-> r.source,
   created_at |-> created_at, updated_at |-> r.now, tags |-> sort(r.unique_tags)]

\* INSERT INTO quotes ..; last_insert_rowid()
create_quote_insert_quote(p) ==
  /\ pc[p] = "c_insert_quote"
  /\ LET r == [req[p] EXCEPT !.id = next_id, !.mutated = TRUE] IN
       /\ quotes' = InsertQuote(quotes, next_id, r.quote, r.source, r.now)
       /\ next_id' = next_id + 1
       /\ IF r.todo = {}
            THEN Return(p, r, "Ok", <<Built(r, r.id, r.now)>>)
            ELSE /\ pc' = [pc EXCEPT ![p] = "c_insert_tag"]
                 /\ req' = [req EXCEPT ![p] = r]
                 /\ UNCHANGED <<result, served>>
  /\ UNCHANGED <<tags, clock, jwt_ext, tokens, calls>>

\* One turn of `for tag in &unique_tags { INSERT INTO tags .. }`, in the
\* HashSet's order; after the last one the function returns.
InsertNextTag(p, again, created_at) ==
  \E tag \in req[p].todo :
    IF ForeignKeyHolds(quotes, req[p].id)
      THEN LET r == [req[p] EXCEPT !.todo = @ \ {tag}, !.mutated = TRUE] IN
             /\ tags' = InsertTag(tags, r.id, tag)
             /\ IF r.todo = {}
                  THEN Return(p, r, "Ok", <<Built(r, r.id, created_at)>>)
                  ELSE /\ pc' = [pc EXCEPT ![p] = again]
                       /\ req' = [req EXCEPT ![p] = r]
                       /\ UNCHANGED <<result, served>>
      ELSE /\ tags' = tags
           /\ Return(p, req[p], "StorageError", <<>>)

create_quote_insert_tag(p) ==
  /\ pc[p] = "c_insert_tag"
  /\ InsertNextTag(p, "c_insert_tag", req[p].now)
  /\ UNCHANGED <<quotes, next_id, clock, jwt_ext, tokens, calls>>

(***************************************************************************)
(* PUT /api/v1/quotes/{id}                                                 *)
(***************************************************************************)
\* api::update_quote up to the first statement of db::update_quote.
StartUpdate(p) ==
  /\ Free(p)
  /\ served < MaxRequests
  /\ \E at \in Arrivals :
     /\ Arrive(at)
     /\ \E h \in HeaderInputs(at) :
       LET auth == from_request_parts(h, jwt_ext, at) IN
       IF auth # "Ok" THEN Reject(p, "update", auth)
       ELSE \E id \in Ids, in \in BodyInputs :
              IF BodyInvalid(in) THEN Reject(p, "update", "BadRequest")
              ELSE Enter(p, Locals("update", id, h, in), "u_select", at)
  /\ UNCHANGED <<store, jwt_ext, tokens, calls>>

\* SELECT created_at FROM quotes WHERE id = ?; None ends the call.
update_quote_select(p) ==
  /\ pc[p] = "u_select"
  /\ IF req[p].id \in DOMAIN quotes
       THEN /\ pc' = [pc EXCEPT ![p] = "u_update"]
            /\ req' = [req EXCEPT ![p].created_at = quotes[req[p].id].created_at]
            /\ UNCHANGED <<result, served>>
       ELSE Return(p, req[p], "NotFound", <<>>)
  /\ UNCHANGED <<store, clock, jwt_ext, tokens, calls>>

\* UPDATE quotes SET quote = ?, source = ?, updated_at = ? WHERE id = ?
\* (the number of rows it changed is not looked at).
update_quote_update(p) ==
  /\ pc[p] = "u_update"
  /\ LET hit == req[p].id \in DOMAIN quotes IN
       /\ quotes' = IF hit
            THEN UpdateQuoteRow(quotes, req[p].id, req[p].quote, req[p].source, req[p].now)
            ELSE quotes
       /\ req' = [req EXCEPT ![p].rows_affected = IF hit THEN 1 ELSE 0,
                             ![p].mutated = @ \/ hit]
  /\ pc' = [pc EXCEPT ![p] = "u_delete_tags"]
  /\ UNCHANGED <<tags, next_id, clock, jwt_ext, result, served, tokens, calls>>

\* update_quote as it would be if it merged the request's tags into the old ones.
ReplacedTags_merged(ts, id) == ts

\* The tag rows update_quote removes before it inserts the request's.
ReplacedTags(ts, id) == DeleteTagsWhere(ts, id)

\* update_quote as it would be if it kept the tags of a request without tags.
update_quote_delete_tags_kept(p) ==
  /\ pc[p] = "u_delete_tags"
  /\ tags' = IF req[p].tags_some THEN ReplacedTags(tags, req[p].id) ELSE tags
  /\ LET r == [req[p] EXCEPT !.mutated = @ \/ (tags' # tags)] IN
       IF r.todo = {}
         THEN Return(p, r, "Ok", <<Built(r, r.id, r.created_at)>>)
         ELSE /\ pc' = [pc EXCEPT ![p] = "u_insert_tag"]
              /\ req' = [req EXCEPT ![p] = r]
              /\ UNCHANGED <<result, served>>
  /\ UNCHANGED <<quotes, next_id, clock, jwt_ext, tokens, calls>>

\* DELETE FROM tags WHERE quote_id = ?; without new tags the call ends here.
update_quote_delete_tags(p) ==
  /\ pc[p] = "u_delete_tags"
  /\ tags' = ReplacedTags(tags, req[p].id)
  /\ LET r == [req[p] EXCEPT !.mutated = @ \/ (tags' # tags)] IN
       IF r.todo = {}
         THEN Return(p, r, "Ok", <<Built(r, r.id, r.created_at)>>)
         ELSE /\ pc' = [pc EXCEPT ![p] = "u_insert_tag"]
              /\ req' = [req EXCEPT ![p] = r]
              /\ UNCHANGED <<result, served>>
  /\ UNCHANGED <<quotes, next_id, clock, jwt_ext, tokens, calls>>

update_quote_insert_tag(p) ==
  /\ pc[p] = "u_insert_tag"
  /\ InsertNextTag(p, "u_insert_tag", req[p].created_at)
  /\ UNCHANGED <<quotes, next_id, clock, jwt_ext, tokens, calls>>

(***************************************************************************)
(* DELETE /api/v1/quotes/{id}                                              *)
(***************************************************************************)
StartDelete(p) ==
  /\ Free(p)
  /\ served < MaxRequests
  /\ \E at \in Arrivals :
     /\ Arrive(at)
     /\ \E h \in HeaderInputs(at) :
       LET auth == from_request_parts(h, jwt_ext, at) IN
       IF auth # "Ok" THEN Reject(p, "delete", auth)
       ELSE \E id \in Ids :
              Enter(p, [IdleReq EXCEPT !.op = "delete", !.id = id, !.header = h],
                    "d_select", at)
  /\ UNCHANGED <<store, jwt_ext, tokens, calls>>

\* SELECT id FROM quotes WHERE id = ?; None is Ok(false).
delete_quote_select(p) ==
  /\ pc[p] = "d_select"
  /\ IF req[p].id \in DOMAIN quotes
       THEN /\ pc' = [pc EXCEPT ![p] = "d_delete"]
            /\ UNCHANGED <<req, result, served>>
       ELSE Return(p, req[p], "NotFound", <<>>)
  /\ UNCHANGED <<store, clock, jwt_ext, tokens, calls>>

\* delete_quote as it would be if it did not look at what its DELETE did.
RowDeleted_always(rows_affected) == TRUE

\* Ok(result.rows_affected() > 0)
RowDeleted(rows_affected) == rows_affected > 0

\* DELETE FROM quotes WHERE id = ?, with the cascade to tags;
\* Ok(rows_affected > 0).
delete_quote_delete(p) ==
  /\ pc[p] = "d_delete"
  /\ LET hit == req[p].id \in DOMAIN quotes
         r == [req[p] EXCEPT !.rows_affected = IF hit THEN 1 ELSE 0,
                             !.mutated = hit]
     IN  /\ quotes' = IF hit THEN DeleteQuoteRow(quotes, r.id) ELSE quotes
         /\ tags' = IF hit THEN CascadeDelete(tags, r.id) ELSE tags
         /\ Return(p, r, IF RowDeleted(r.rows_affected) THEN "Ok" ELSE "NotFound", <<>>)
  /\ UNCHANGED <<next_id, clock, jwt_ext, tokens, calls>>

(***************************************************************************)
(* GET /api/v1/quotes/{id}                                                 *)
(***************************************************************************)
StartGetById(p) ==
  /\ Free(p)
  /\ served < MaxRequests
  /\ \E at \in Arrivals, id \in Ids :
       /\ Arrive(at)
       /\ Enter(p, [IdleReq EXCEPT !.op = "get", !.id = id], "g_select", at)
  /\ UNCHANGED <<store, jwt_ext, tokens, calls>>

\* SELECT .. FROM quotes WHERE id = ?
get_quote_by_id_select(p) ==
  /\ pc[p] = "g_select"
  /\ IF req[p].id \in DOMAIN quotes
       THEN /\ pc' = [pc EXCEPT ![p] = "g_tags"]
            /\ req' = [req EXCEPT ![p].rows = <<quotes[req[p].id]>>]
            /\ UNCHANGED <<result, served>>
       ELSE Return(p, req[p], "NotFound", <<>>)
  /\ UNCHANGED <<store, clock, jwt_ext, tokens, calls>>

\* The tag names a read reports for a quote row: SELECT .. FROM tags WHERE
\* quote_id = ?, the names in the order of the rows.
ReportedTags(ts, id) == TagNameLists(ts, id)

\* SELECT .. FROM tags WHERE quote_id = ?, then the projection.
get_quote_by_id_tags(p) ==
  /\ pc[p] = "g_tags"
  /\ \E names \in ReportedTags(tags, req[p].id) :
       Return(p, req[p], "Ok", <<QuoteWithTags(req[p].rows[1], names)>>)
  /\ UNCHANGED <<store, clock, jwt_ext, tokens, calls>>

(***************************************************************************)
(* db::get_all_quotes                                                      *)
(***************************************************************************)
RECURSIVE SeqsOf(_)
SeqsOf(S) ==
  IF S = {} THEN {<<>>}
  ELSE UNION {{<<x>> \o s : s \in SeqsOf(S \ {x})} : x \in S}

\* SELECT .. FROM quotes ORDER BY created_at DESC: equal times in any order.
QuotesNewestFirst(qs) ==
  {s \in SeqsOf({qs[i] : i \in DOMAIN qs}) :
     \A i \in 1..(Len(s) - 1) : s[i].created_at >= s[i + 1].created_at}

StartGetAll(p) ==
  /\ Free(p)
  /\ served < MaxRequests
  /\ \E at \in Arrivals :
       /\ Arrive(at)
       /\ Enter(p, [IdleReq EXCEPT !.op = "all"], "a_select", at)
  /\ UNCHANGED <<store, jwt_ext, tokens, calls>>

get_all_quotes_select(p) ==
  /\ pc[p] = "a_select"
  /\ \E rows \in QuotesNewestFirst(quotes) :
       IF rows = <<>>
         THEN Return(p, req[p], "Ok", <<>>)
         ELSE /\ pc' = [pc EXCEPT ![p] = "a_tags"]
              /\ req' = [req EXCEPT ![p].rows = rows]
              /\ UNCHANGED <<result, served>>
  /\ UNCHANGED <<store, clock, jwt_ext, tokens, calls>>

\* One turn of `for quote in quotes { SELECT .. FROM tags ..; push }`.
get_all_quotes_tags(p) ==
  /\ pc[p] = "a_tags"
  /\ \E names \in ReportedTags(tags, Head(req[p].rows).id) :
       LET r == [req[p] EXCEPT !.rows = Tail(@),
                   !.acc = Append(@, QuoteWithTags(Head(req[p].rows), names))]
       IN  IF r.rows = <<>>
             THEN Return(p, r, "Ok", r.acc)
             ELSE /\ req' = [req EXCEPT ![p] = r]
                  /\ UNCHANGED <<pc, result, served>>
  /\ UNCHANGED <<store, clock, jwt_ext, tokens, calls>>

(***************************************************************************)
(* GET /api/v1/quotes/random                                               *)
(***************************************************************************)
StartGetRandom(p) ==
  /\ Free(p)
  /\ served < MaxRequests
  /\ \E at \in Arrivals :
       /\ Arrive(at)
       /\ Enter(p, [IdleReq EXCEPT !.op = "random"], "r_count", at)
  /\ UNCHANGED <<store, jwt_ext, tokens, calls>>

\* SELECT COUNT(*) FROM quotes; 0 is Ok(None).
get_random_quote_count(p) ==
  /\ pc[p] = "r_count"
  /\ IF Cardinality(DOMAIN quotes) = 0
       THEN Return(p, req[p], "None", <<>>)
       ELSE /\ pc' = [pc EXCEPT ![p] = "r_select"]
            /\ UNCHANGED <<req, result, served>>
  /\ UNCHANGED <<store, clock, jwt_ext, tokens, calls>>

\* SELECT .. FROM quotes ORDER BY RANDOM() LIMIT 1; the request remembers the
\* version of the quote the row was drawn from.
get_random_quote_select(p) ==
  /\ pc[p] = "r_select"
  /\ IF DOMAIN quotes = {}
       THEN Return(p, req[p], "None", <<>>)
       ELSE \E id \in DOMAIN quotes :
              /\ pc' = [pc EXCEPT ![p] = "r_tags"]
              /\ req' = [req EXCEPT ![p].id = id, ![p].rows = <<quotes[id]>>,
                                    ![p].old = Version(quotes, tags, id)]
              /\ UNCHANGED <<result, served>>
  /\ UNCHANGED <<store, clock, jwt_ext, tokens, calls>>

get_random_quote_tags(p) ==
  /\ pc[p] = "r_tags"
  /\ \E names \in ReportedTags(tags, req[p].id) :
       Return(p, req[p], "Ok", <<QuoteWithTags(req[p].rows[1], names)>>)
  /\ UNCHANGED <<store, clock, jwt_ext, tokens, calls>>

(***************************************************************************)
(* The environment.                                                        *)
(***************************************************************************)
\* `.await?`: the statement a handler is about to execute fails (the pool
\* times out, the connection is lost) and the error is returned as it is.
StorageFault(p) ==
  /\ InFlight(p)
  /\ Return(p, req[p], "StorageError", <<>>)
  /\ UNCHANGED <<store, clock, jwt_ext, tokens, calls>>

\* One statement of a request in flight.
Step(p) ==
  \/ create_quote_insert_quote(p)
  \/ create_quote_insert_tag(p)
  \/ update_quote_select(p)
  \/ update_quote_update(p)
  \/ update_quote_delete_tags(p)
  \/ update_quote_insert_tag(p)
  \/ delete_quote_select(p)
  \/ delete_quote_delete(p)
  \/ get_quote_by_id_select(p)
  \/ get_quote_by_id_tags(p)
  \/ StorageFault(p)

\* The writes and the read by id, interleaved statement by statement.
Next ==
  \E p \in Procs :
       \/ StartCreate(p)
       \/ StartUpdate(p)
       \/ StartDelete(p)
       \/ StartGetById(p)
       \/ Step(p)

Spec == Init /\ [][Next]_vars

\* No request is in flight.
Quiet == \A p \in Procs : Free(p)

\* Every operation, one request at a time.
NextSeq ==
  \E p \in Procs :
       \/ Quiet /\ StartCreate(p)
       \/ Quiet /\ StartUpdate(p)
       \/ Quiet /\ StartDelete(p)
       \/ Quiet /\ StartGetById(p)
       \/ Quiet /\ StartGetAll(p)
       \/ Quiet /\ StartGetRandom(p)
       \/ Step(p)
       \/ get_all_quotes_select(p)
       \/ get_all_quotes_tags(p)
       \/ get_random_quote_count(p)
       \/ get_random_quote_select(p)
       \/ get_random_quote_tags(p)

SpecSeq == Init /\ [][NextSeq]_vars

\* The reads of the whole table next to the writes that change what they
\* read: GetAll and GetRandom interleaved with Update and Delete, statement
\* by statement.
NextRead ==
  \E p \in Procs :
       \/ StartUpdate(p)
       \/ StartDelete(p)
       \/ StartGetAll(p)
       \/ StartGetRandom(p)
       \/ update_quote_select(p)
       \/ update_quote_update(p)
       \/ update_quote_delete_tags(p)
       \/ update_quote_insert_tag(p)
       \/ delete_quote_select(p)
       \/ delete_quote_delete(p)
       \/ get_all_quotes_select(p)
       \/ get_all_quotes_tags(p)
       \/ get_random_quote_count(p)
       \/ get_random_quote_select(p)
       \/ get_random_quote_tags(p)
       \/ StorageFault(p)

SpecRead == Init /\ [][NextRead]_vars

\* init_db with a CSV file whose one record carries two tags, "b, a".
ListedQuote == Body(<<"x">>, <<"s">>, SomeTags(<< <<"b">>, <<" ", "a">> >>))

InitList ==
  /\ quotes = InsertQuote(<<>>, 1, ListedQuote.quote, ListedQuote.source, StartTime)
  /\ tags = SetToBag({TagRow(1, t) : t \in unique_tags(ListedQuote.tags)})
  /\ next_id = 2
  /\ now = StartTime
  /\ ticks = 0
  /\ jwt_ext \in BOOLEAN
  /\ pc = [p \in Procs |-> "idle"]
  /\ req = [p \in Procs |-> IdleReq]
  /\ result = [p \in Procs |-> NoResult]
  /\ served = 0
  /\ issued = {}
  /\ validated = [token |-> Token(FALSE, "none", 0), at |-> 0, outcome |-> "none"]
  /\ registered = NoRegistration
  /\ extracted = NoExtraction
  /\ normalized = NoNormalization
  /\ searched = NoSearch

\* Every operation, one request at a time, on that store.
SpecList == InitList /\ [][NextSeq]_vars

(***************************************************************************)
(* The token service on its own: POST /auth and validate_token.            *)
(***************************************************************************)
\* api::register: make_jwt_token with the password of the Registration.
register ==
  /\ Cardinality(issued) < MaxIssued
  /\ \E pw \in PasswordInputs :
       LET made == make_jwt_token(pw, now) IN
       /\ issued' = IF made.status = "Ok"
                      THEN issued \cup {[token |-> made.token, at |-> now]}
                      ELSE issued
       /\ registered' = [password |-> pw, status |-> made.status,
                         http |-> IF made.status = "Ok" THEN 200
                                  ELSE into_response(made.status),
                         token |-> made.token]
  /\ UNCHANGED <<store, clock, jwt_ext, handlers, validated, extracted, normalized, searched>>

\* A token reaches validate_token: one that was issued, or one of a client's own.
Validate ==
  /\ \E t \in {i.token : i \in issued} \cup TokenInputs(now) :
       validated' = [token |-> t, at |-> now, outcome |-> validate_token(t, now)]
  /\ UNCHANGED <<store, clock, jwt_ext, handlers, issued, calls>>

NoValidation == [token |-> Token(FALSE, "none", 0), at |-> 0, outcome |-> "none"]

\* The clock moves on: by a tick, by a second, by the leeway, by all but a
\* second of a token's life; the validate_token call made before is over.
AuthTick ==
  /\ ticks < MaxAuthTicks
  /\ \E d \in {1, TicksPerSec, TicksPerSec * Leeway, TicksPerSec * (TokenLifetime - 1)} :
       now' = now + d
  /\ ticks' = ticks + 1
  /\ validated' = NoValidation
  /\ extracted' = NoExtraction
  /\ UNCHANGED <<store, jwt_ext, handlers, issued, registered, normalized, searched>>

NextAuth == register \/ Validate \/ AuthTick

SpecAuth == Init /\ [][NextAuth]_vars

(***************************************************************************)
(* The Claims extractor on its own.                                        *)
(***************************************************************************)
\* from_request_parts gets as far as its call of validate_token.
calls_validate_token(header, ext) == header.kind = "bearer" /\ ext

\* A gated request reaches the extractor with some Authorization header.
Extract ==
  /\ \E h \in HeaderInputs(now) :
       extracted' = [header |-> h, at |-> now,
                     outcome |-> from_request_parts(h, jwt_ext, now),
                     validate_token |-> calls_validate_token(h, jwt_ext)]
  /\ UNCHANGED <<store, clock, jwt_ext, handlers, tokens, registered, normalized, searched>>

NextGate == Extract \/ AuthTick

SpecGate == Init /\ [][NextGate]_vars

(***************************************************************************)
(* The tag normalisation on its own.                                       *)
(***************************************************************************)
\* The longest tag list tried.
MaxTags == 3

\* The tags tried: empty, blank, padded on either side, with a space inside.
TagStrings ==
  { <<>>, <<" ">>, <<"a">>, <<" ", "a">>, <<"a", " ">>, <<"b">>,
    <<"a", "b">>, <<" ", "b", " ">>, <<"a", " ", "b">> }

TagLists == UNION {[1..n -> TagStrings] : n \in 0..MaxTags}

\* request.tags goes through the normalisation, and its output once more;
\* one list is tried in a run.
Normalize ==
  /\ ~normalized.done
  /\ \E tg \in {NoTags} \cup {SomeTags(l) : l \in TagLists} :
       LET out == tag_names(tg) IN
       normalized' = [done |-> TRUE, input |-> tg, output |-> out,
                      again |-> tag_names(SomeTags(out))]
  /\ UNCHANGED <<store, clock, jwt_ext, handlers, tokens, registered, extracted, searched>>

NextNorm == Normalize

SpecNorm == Init /\ [][NextNorm]_vars

(***************************************************************************)
(* GET /api/v1/quotes?quote=&source=&tag=: db::search_quotes, the filter   *)
(* of GetAll, on its own.                                                  *)
(***************************************************************************)
\* sub occurs in s.
Contains(s, sub) ==
  \E i \in 0..(Len(s) - Len(sub)) : SubSeq(s, i + 1, i + Len(sub)) = sub

\* The criterion is supplied: present and not empty.
Supplied(o) == o.some /\ o.value # <<>>

\* The tag criterion against one tag name: the whole name or a part of it.
TagMatches(name, value, whole) == IF whole THEN name = value ELSE Contains(name, value)

\* The filter as it would be if a quote had to match every supplied criterion.
Matches_every(row, names, params, whole) ==
  /\ Supplied(params.quote) => Contains(row.quote, params.quote.value)
  /\ Supplied(params.source) => Contains(row.source, params.source.value)
  /\ Supplied(params.tag) => \E n \in names : TagMatches(n, params.tag.value, whole)

\* The quote matches any supplied criterion; without one, every quote does.
Matches(row, names, params, whole) ==
  \/ ~Supplied(params.quote) /\ ~Supplied(params.source) /\ ~Supplied(params.tag)
  \/ Supplied(params.quote) /\ Contains(row.quote, params.quote.value)
  \/ Supplied(params.source) /\ Contains(row.source, params.source.value)
  \/ Supplied(params.tag) /\ \E n \in names : TagMatches(n, params.tag.value, whole)

\* The lists search_quotes may return: the matching quotes, newest first,
\* each with its tags.
search_quotes(qs, ts, params, whole) ==
  UNION
    { LET Hit(row) == Matches(row, {r.name : r \in BagToSet(TagsWhere(ts, row.id))},
                              params, whole)
          hits == SelectSeq(rows, Hit)
      IN  {out \in [DOMAIN hits -> UNION {Listings(qs, ts, id) : id \in DOMAIN qs}] :
             \A i \in DOMAIN hits : out[i] \in Listings(qs, ts, hits[i].id)}
      : rows \in QuotesNewestFirst(qs) }

\* The CSV files init_db may have imported: none, one or two records.
CsvInputs ==
  { <<>>,
    << Body(<<"x", "y">>, <<"s">>, SomeTags(<< <<"a">> >>)) >>,
    << Body(<<"x", "y">>, <<"s">>, SomeTags(<< <<"a">> >>)),
       Body(<<"y">>, <<"t">>, SomeTags(<< <<"a", "b">>, <<" ", "b">> >>)) >> }

\* init_db: the records of the file in their order, each stamped as it is
\* inserted, the last one as the server starts.
InitSearch ==
  /\ \E csv \in CsvInputs :
       /\ quotes = [i \in DOMAIN csv |->
                      QuoteRow(i, csv[i].quote, csv[i].source,
                               StartTime - (Len(csv) - i), StartTime - (Len(csv) - i))]
       /\ tags = SetToBag(UNION {{TagRow(i, t) : t \in unique_tags(csv[i].tags)} :
                                  i \in DOMAIN csv})
       /\ next_id = Len(csv) + 1
  /\ now = StartTime
  /\ ticks = 0
  /\ jwt_ext \in BOOLEAN
  /\ pc = [p \in Procs |-> "idle"]
  /\ req = [p \in Procs |-> IdleReq]
  /\ result = [p \in Procs |-> NoResult]
  /\ served = 0
  /\ issued = {}
  /\ validated = [token |-> Token(FALSE, "none", 0), at |-> 0, outcome |-> "none"]
  /\ registered = NoRegistration
  /\ extracted = NoExtraction
  /\ normalized = NoNormalization
  /\ searched = NoSearch

\* One call of search_quotes with the parameters of a request; what a tag
\* criterion is matched against, the whole name or a part, is left open.
Search ==
  /\ ~searched.done
  /\ \E params \in ParamInputs, whole \in BOOLEAN :
       \E out \in search_quotes(quotes, tags, params, whole) :
         searched' = [done |-> TRUE, params |-> params, whole |-> whole, output |-> out]
  /\ UNCHANGED <<store, clock, jwt_ext, handlers, tokens, registered, extracted, normalized>>

NextSearch == Search

SpecSearch == InitSearch /\ [][NextSearch]_vars

(***************************************************************************)
(* What the checks read off a state.                                       *)
(***************************************************************************)
\* The names of a list as a bag.
NamesBag(l) ==
  [n \in {l[i] : i \in DOMAIN l} |-> Cardinality({i \in DOMAIN l : l[i] = n})]

\* What a returned QuoteWithTags says of the quote: text, source, tags as a bag.
Reported(b) == [quote |-> b.quote, source |-> b.source, tags |-> NamesBag(b.tags)]

\* What a request of Create or Update asks the quote to be.
Intended(r) == [quote |-> r.quote, source |-> r.source, tags |-> SetToBag(r.unique_tags)]

\* The handler is inside update_quote.
Updating(p) == pc[p] \in {"u_select", "u_update", "u_delete_tags", "u_insert_tag"}

\* The handler has answered a request of the operation with the status.
Answered(p, op, status) ==
  pc[p] = "done" /\ result[p].op = op /\ result[p].status = status

Mutating == {"create", "update", "delete"}

\* The header carries a token that validate_token accepts at the time.
Authorized(h, at) ==
  /\ jwt_ext
  /\ h.kind = "bearer"
  /\ h.token.wellformed
  /\ h.token.key = "signing"
  /\ h.token.exp >= timestamp(at)

\* The step is one of handler p.
Actor(p) == <<pc[p], req[p], result[p]>>' # <<pc[p], req[p], result[p]>>

(***************************************************************************)
(* C1 .. C10                                                               *)
(***************************************************************************)
\* C1: while an Update that changes the tags of a quote is in progress, a
\* GetById of that quote that has returned has reported either the complete
\* version the Update started from or the complete version it asks for: never
\* an empty, partial or mixed tag set, never the new text with the old tags.
C1_ReadSeesOldOrNew ==
  \A u \in Procs, g \in Procs :
    ( /\ Updating(u)
      /\ req[u].old # <<>>
      /\ req[u].old[1].tags # Intended(req[u]).tags
      /\ Answered(g, "get", "Ok")
      /\ result[g].id = req[u].id )
    => Reported(result[g].body[1]) \in {req[u].old[1], Intended(req[u])}

\* C2: a Create or Update that returns a storage error has changed nothing in
\* the store: neither the quote row nor any tag row.
C2_AllOrNothing ==
  \A p \in Procs :
    ( /\ pc[p] = "done"
      /\ result[p].op \in {"create", "update"}
      /\ result[p].status = "StorageError" )
    => ~result[p].mutated

\* C3: the store changes only in steps of a Create, Update or Delete whose
\* request carried a token that validate_token accepts; a request without a
\* header, with a malformed, wrongly signed or expired token is answered with
\* an authentication error in a step that leaves the store as it was.
C3_OnlyValidatedRequestsMutate ==
  [][ /\ (store' # store) =>
           \E p \in Procs :
             /\ Actor(p)
             /\ InFlight(p)
             /\ req[p].op \in Mutating
             /\ Authorized(req[p].header, req[p].now)
      /\ \A p \in Procs :
           (Actor(p) /\ ~InFlight(p) /\ pc'[p] = "done") =>
             /\ store' = store
             /\ result'[p].status \in AuthErrors \cup {"BadRequest"}
             /\ ~result'[p].mutated
      /\ \A p \in Procs :
           (Actor(p) /\ ~InFlight(p) /\ InFlight(p)' /\ req'[p].op \in Mutating) =>
             Authorized(req'[p].header, req'[p].now) ]_vars

\* A Delete was turned away with an authentication error and the quote is
\* still there, and a Create with a valid token has stored its quote.
C3_Witness ==
  \E p \in Procs, q \in Procs :
    /\ Answered(p, "delete", "TokenExpired")
    /\ Answered(q, "create", "Ok")
    /\ result[q].mutated
    /\ 1 \in DOMAIN quotes

\* C4: in every state no quote has two tag rows of the same name, and no tag
\* row has an empty or blank name.
C4_TagRowsUniqueAndNonBlank ==
  \A r \in BagToSet(tags) :
    /\ tags[r] = 1
    /\ trim(r.name) # <<>>

\* C5: every tag row belongs to a quote row that is there, also while a Delete
\* runs next to an Update of the same quote.
C5_NoOrphanTags ==
  \A r \in BagToSet(tags) : r.quote_id \in DOMAIN quotes

\* A Delete has removed the quote an Update is about to insert tags for.
C5_Witness ==
  \E u \in Procs, d \in Procs :
    /\ pc[u] = "u_insert_tag"
    /\ Answered(d, "delete", "Ok")
    /\ result[d].id = req[u].id
    /\ result[d].seq > req[u].seq

\* C6: when two Updates of the same quote have both succeeded, the quote is
\* what one of the two asked for, in full: its text, its source and its tags.
C6_OneUpdateWins ==
  \A p \in Procs, q \in Procs :
    ( /\ p # q
      /\ Answered(p, "update", "Ok")
      /\ Answered(q, "update", "Ok")
      /\ result[p].id = result[q].id
      /\ result[p].id \in DOMAIN quotes )
    => Version(quotes, tags, result[p].id)[1] \in
         {Reported(result[p].body[1]), Reported(result[q].body[1])}

\* C7: with one request at a time, the GetById that follows a successful
\* Update of the quote returns the text and the source of the request and
\* exactly its normalised tags, each once, and none of the tags before.
C7_ReadAfterUpdate ==
  \A u \in Procs, g \in Procs :
    ( /\ Answered(u, "update", "Ok")
      /\ Answered(g, "get", "Ok")
      /\ result[g].id = result[u].id
      /\ result[g].seq = result[u].seq + 1 )
    => /\ Reported(result[g].body[1]) = Reported(result[u].body[1])
       /\ \A n \in DOMAIN NamesBag(result[g].body[1].tags) :
            NamesBag(result[g].body[1].tags)[n] = 1

\* The imported quote, tagged a, was updated to the tags a and b and then read.
C7_Witness ==
  \E u \in Procs, g \in Procs :
    /\ Answered(u, "update", "Ok")
    /\ result[u].id = 1
    /\ result[u].seq = 1
    /\ result[u].body[1].tags = << <<"a">>, <<"b">> >>
    /\ Answered(g, "get", "Ok")
    /\ result[g].id = 1
    /\ result[g].seq = 2

\* C8: no step changes the created_at of a quote, and every Update that
\* succeeds has stored the quote row with the updated_at of its own time and
\* returns the created_at the quote was created with.
C8_UpdateStampsTheRow ==
  [][ /\ \A id \in DOMAIN quotes \cap DOMAIN quotes' :
           quotes'[id].created_at = quotes[id].created_at
      /\ \A p \in Procs :
           (Updating(p) /\ pc'[p] = "done" /\ result'[p].status = "Ok") =>
             /\ result'[p].rows_affected = 1
             /\ result'[p].body[1].updated_at = req[p].now
             /\ result'[p].body[1].created_at = req[p].created_at ]_vars

\* C9: every QuoteWithTags an operation returns lists its tags in ascending
\* lexical order.
C9_ReturnedTagsSorted ==
  \A p \in Procs :
    (pc[p] = "done" /\ result[p].status = "Ok") =>
      \A i \in DOMAIN result[p].body : IsSorted(result[p].body[i].tags)

\* C10 as stated, the times being those of the clock: a token issued at time
\* t is accepted by validate_token at every time now <= t + 24 hours, that
\* instant included, and rejected at every time now > t + 24 hours.
C10_AcceptedExactlyForADay ==
  \A i \in issued :
    (validated.outcome # "none" /\ validated.token = i.token) =>
      IF validated.at <= i.at + TicksPerSec * TokenLifetime
        THEN validated.outcome = "Ok"
        ELSE validated.outcome \in {"TokenExpired", "InvalidToken"}

\* C10, in the whole seconds the token carries: a token issued in second t is
\* accepted by validate_token in every second up to t + 24 hours, that second
\* included, and rejected in every later second.
C10_AcceptedForADay ==
  \A i \in issued :
    (validated.outcome # "none" /\ validated.token = i.token) =>
      IF timestamp(validated.at) <= timestamp(i.at) + TokenLifetime
        THEN validated.outcome = "Ok"
        ELSE validated.outcome \in {"TokenExpired", "InvalidToken"}

\* An issued token was validated in the very second it expires, and accepted.
C10_Witness ==
  \E i \in issued :
    /\ validated.token = i.token
    /\ timestamp(validated.at) = timestamp(i.at) + TokenLifetime
    /\ validated.outcome = "Ok"

(***************************************************************************)
(* C11 .. C20                                                              *)
(***************************************************************************)
\* The request of handler p is the last one taken.
Latest(p) == pc[p] = "done" /\ result[p].seq = served

\* C11: validate_token of a well-formed, rightly signed token whose exp is
\* before the current time fails with TokenExpired, not InvalidToken, however
\* long ago the token expired.
C11_ExpiredIsTokenExpired ==
  ( /\ validated.outcome # "none"
    /\ validated.token.wellformed
    /\ validated.token.key = "signing"
    /\ validated.token.exp < timestamp(validated.at) )
  => validated.outcome = "TokenExpired"

\* C12: POST /auth with a password other than the registration secret fails
\* with WrongCredentials and issues no token; a token is issued only when the
\* password equals the secret.
C12_TokenOnlyForTheSecret ==
  [][ (registered' # registered \/ issued' # issued) =>
        /\ (registered'.status = "Ok") <=> (registered'.password = "reg_key")
        /\ registered'.password # "reg_key" =>
             /\ registered'.status = "WrongCredentials"
             /\ ~registered'.token.wellformed
             /\ issued' = issued
        /\ registered'.status = "Ok" =>
             /\ registered'.token \in {i.token : i \in issued'}
             /\ validate_token(registered'.token, now) = "Ok" ]_vars

\* POST /auth with a wrong password was refused and no token is out.
C12_Witness ==
  /\ registered.password = "guess"
  /\ registered.status = "WrongCredentials"
  /\ issued = {}

\* C13: validate_token of a token that is malformed or was not signed with the
\* service's key fails with InvalidToken, whatever its exp.
C13_ForgedIsInvalidToken ==
  ( /\ validated.outcome # "none"
    /\ (~validated.token.wellformed \/ validated.token.key # "signing") )
  => validated.outcome = "InvalidToken"

\* A token signed with another key and not yet expired was refused.
C13_Witness ==
  /\ validated.token.wellformed
  /\ validated.token.key = "other"
  /\ validated.token.exp >= timestamp(validated.at)
  /\ validated.outcome = "InvalidToken"

C15_AuthFailuresAre401 ==
  /\ \A p \in Procs :
       (pc[p] = "done" /\ result[p].status \in AuthErrors) => result[p].http = 401
  /\ registered.status \in AuthErrors => registered.http = 401
  /\ registered.status = "TokenCreation" => registered.http = 500

\* C16: with one request at a time, a Delete that returns true has removed the
\* row it found, one that returns false has changed nothing; after either no
\* quote row and no tag row has the id, and the GetById that follows a
\* successful Delete finds nothing.
C16_DeleteReturns ==
  \A d \in Procs :
    (pc[d] = "done" /\ result[d].op = "delete") =>
      /\ result[d].status = "Ok" =>
           result[d].rows_affected = 1 /\ result[d].mutated
      /\ result[d].status = "NotFound" => ~result[d].mutated
      /\ (Latest(d) /\ result[d].status \in {"Ok", "NotFound"}) =>
           /\ result[d].id \notin DOMAIN quotes
           /\ BagToSet(TagsWhere(tags, result[d].id)) = {}
      /\ \A g \in Procs :
           ( /\ result[d].status = "Ok"
             /\ pc[g] = "done"
             /\ result[g].op = "get"
             /\ result[g].id = result[d].id
             /\ result[g].seq = result[d].seq + 1
             /\ result[g].status # "StorageError" )
           => result[g].status = "NotFound"

\* The imported quote was deleted and the read that followed did not find it.
C16_Witness ==
  \E d \in Procs, g \in Procs :
    /\ Answered(d, "delete", "Ok")
    /\ result[d].id = 1
    /\ Answered(g, "get", "NotFound")
    /\ result[g].id = 1
    /\ result[g].seq = result[d].seq + 1

\* C17: with one request at a time, an Update or a GetById of an id that is
\* not in the store answers not-found (404) unless its SELECT itself fails,
\* and a not-found Update has written nothing.
C17_AbsentIdIsNotFound ==
  \A p \in Procs :
    (pc[p] = "done" /\ result[p].op \in {"update", "get"}) =>
      /\ result[p].status = "NotFound" =>
           result[p].http = 404 /\ ~result[p].mutated
      /\ ( /\ Latest(p)
           /\ result[p].id \notin DOMAIN quotes
           /\ result[p].status # "StorageError" )
         => result[p].status = "NotFound"

\* An Update of an id without a quote was answered 404 and the store is as
\* it was imported.
C17_Witness ==
  \E p \in Procs :
    /\ Answered(p, "update", "NotFound")
    /\ Latest(p)
    /\ result[p].id = 2
    /\ DOMAIN quotes = {1}
    /\ BagToSet(tags) = {TagRow(1, <<"a">>)}

\* C18: with one request at a time, the GetById that follows a successful
\* Create returns the text and the source of the request and the tag list
\* that Create returned, which is sorted.
C18_CreateThenGet ==
  \A c \in Procs, g \in Procs :
    ( /\ Answered(c, "create", "Ok")
      /\ Answered(g, "get", "Ok")
      /\ result[g].id = result[c].id
      /\ result[g].seq = result[c].seq + 1 )
    => /\ result[g].body[1].quote = result[c].body[1].quote
       /\ result[g].body[1].source = result[c].body[1].source
       /\ result[g].body[1].tags = result[c].body[1].tags
       /\ IsSorted(result[c].body[1].tags)

\* C19: the normalisation maps every tag list, absent, empty or all blank
\* included, to a list without duplicates and without blank entries, every
\* entry trimmed, in ascending order, and maps its output to itself.
C19_NormalizerIdempotent ==
  normalized.done =>
    LET out == normalized.output IN
    /\ \A i \in DOMAIN out : \A j \in DOMAIN out : i # j => out[i] # out[j]
    /\ \A i \in DOMAIN out : out[i] # <<>> /\ trim(out[i]) = out[i]
    /\ \A i \in 1..(Len(out) - 1) : StrLess(out[i], out[i + 1])
    /\ normalized.again = out

\* A list with padded, repeated and blank entries came out as a, b.
C19_Witness ==
  /\ normalized.done
  /\ normalized.input = SomeTags(<< <<" ", "b", " ">>, <<"a", " ">>, <<"a">> >>)
  /\ normalized.output = << <<"a">>, <<"b">> >>

\* C20: a Create or Update whose text or source is empty after trimming is
\* answered 400 and writes nothing: no such request reaches the db function,
\* and every quote row has a text and a source that are not blank.
C20_NoBlankTextOrSource ==
  /\ \A id \in DOMAIN quotes :
       trim(quotes[id].quote) # <<>> /\ trim(quotes[id].source) # <<>>
  /\ \A p \in Procs :
       /\ (pc[p] = "done" /\ result[p].status = "BadRequest") =>
            /\ result[p].op \in {"create", "update"}
            /\ result[p].http = 400
            /\ ~result[p].mutated
       /\ (InFlight(p) /\ req[p].op \in {"create", "update"}) =>
            trim(req[p].quote) # <<>> /\ trim(req[p].source) # <<>>

\* A Create with a blank text was answered 400 and the store is as imported.
C20_Witness ==
  \E p \in Procs :
    /\ Answered(p, "create", "BadRequest")
    /\ DOMAIN quotes = {1}
    /\ next_id = 2

(***************************************************************************)
(* C21 .. C30                                                              *)
(***************************************************************************)
\* The handler is inside get_random_quote.
Drawing(p) == pc[p] \in {"r_count", "r_select", "r_tags"}

\* C21: a GetRandom that returns "none" returns it when the store holds no
\* quote, and one that returns a quote returns a quote of the store with the
\* tags of that quote: the version the store held when the row was drawn or
\* the one it holds as the call returns, also when Deletes and Updates run
\* next to it.
C21_RandomReturnsAStoredQuote ==
  [][ \A p \in Procs :
        (Drawing(p) /\ pc'[p] = "done") =>
          /\ (result'[p].status = "None") => (DOMAIN quotes' = {})
          /\ (result'[p].status = "Ok") =>
               Reported(result'[p].body[1]) \in
                 {v[1] : v \in {req[p].old, Version(quotes', tags', req[p].id)} \ {<<>>}} ]_vars

C23_FilterReturnsTheMatches ==
  searched.done =>
    LET f == searched.params
        out == searched.output
        OnText(id) == f.quote.some /\ f.quote.value # <<>>
                        /\ Contains(quotes[id].quote, f.quote.value)
        OnSource(id) == f.source.some /\ f.source.value # <<>>
                          /\ Contains(quotes[id].source, f.source.value)
        OnTag(id) == f.tag.some /\ f.tag.value # <<>>
                       /\ \E r \in BagToSet(tags) :
                            /\ r.quote_id = id
                            /\ IF searched.whole THEN r.name = f.tag.value
                                                 ELSE Contains(r.name, f.tag.value)
        Unfiltered == \A o \in {f.quote, f.source, f.tag} : ~o.some \/ o.value = <<>>
        expected == IF Unfiltered THEN DOMAIN quotes
                    ELSE {id \in DOMAIN quotes : OnText(id) \/ OnSource(id) \/ OnTag(id)}
    IN  /\ {out[i].id : i \in DOMAIN out} = expected
        /\ Len(out) = Cardinality(expected)
        /\ \A i \in DOMAIN out : out[i] \in Listings(quotes, tags, out[i].id)

\* Of two quotes, a search for a part of the first one's text, an empty
\* source and a whole tag of the second one has returned both.
C23_Witness ==
  /\ searched.done
  /\ Cardinality(DOMAIN quotes) = 2
  /\ searched.params = SearchParams(Given(<<"x">>), Given(<<>>), Given(<<"b">>))
  /\ searched.whole
  /\ Len(searched.output) = 2

\* C24: every request whose db function returned a storage error has been
\* answered with status 500: not with 404, not with a success, and not left
\* without an answer.
C24_StorageErrorIs500 ==
  \A p \in Procs :
    (pc[p] = "done" /\ result[p].status = "StorageError") => result[p].http = 500

\* C25: the updated_at of a quote follows the order in which the writes to
\* its row commit: no write stores an updated_at earlier than the one the row
\* already has, so the updated_at of a quote never decreases.
C25_UpdatedAtNeverDecreases ==
  [][ \A id \in DOMAIN quotes \cap DOMAIN quotes' :
        quotes'[id].updated_at >= quotes[id].updated_at ]_vars

\* C27: an Update that has returned success has modified a quote row of its
\* id, and an Update that modified no row, the quote having been deleted
\* after its existence check, has written nothing: no tag rows for the
\* deleted quote.
C27_UpdateSucceedsOnlyOnARow ==
  \A p \in Procs :
    (pc[p] = "done" /\ result[p].op = "update") =>
      /\ (result[p].status = "Ok") => (result[p].rows_affected = 1)
      /\ (result[p].rows_affected = 0) => ~result[p].mutated

\* C29: in every state every stored quote has created_at <= updated_at, also
\* after an Update that took its time before the quote was created.
C29_CreatedBeforeUpdated ==
  \A id \in DOMAIN quotes : quotes[id].created_at <= quotes[id].updated_at

\* The quote a statement of handler p writes to: the id of the request, for
\* the INSERT of a Create the id the row is about to get.
Target(p) == IF pc[p] = "c_insert_quote" THEN next_id ELSE req[p].id

\* The ids that quote rows or tag rows of the store carry.
StoredIds(qs, ts) == DOMAIN qs \cup {r.quote_id : r \in BagToSet(ts)}

\* C26: every step of a Create, Update or Delete leaves every quote other
\* than its target (the id of the request, or the id a Create gives its new
\* row, which no quote had before) as it was, its row and its tag rows, in
\* every interleaving of the requests.
C26_OtherQuotesUntouched ==
  [][ \A p \in Procs :
        Actor(p) =>
          /\ (pc[p] = "c_insert_quote") => (Target(p) \notin StoredIds(quotes, tags))
          /\ \A id \in (StoredIds(quotes, tags) \cup StoredIds(quotes', tags')) \ {Target(p)} :
               /\ (id \in DOMAIN quotes) = (id \in DOMAIN quotes')
               /\ (id \in DOMAIN quotes) => (quotes'[id] = quotes[id])
               /\ TagsWhere(tags', id) = TagsWhere(tags, id) ]_vars

\* While a Create is still inserting the tags of quote 2, an Update of
\* quote 1 that arrived after it has replaced the tags of quote 1.
C26_Witness ==
  \E c \in Procs, u \in Procs :
    /\ pc[c] = "c_insert_tag"
    /\ req[c].id = 2
    /\ TagsWhere(tags, 2) # EmptyBag
    /\ Answered(u, "update", "Ok")
    /\ result[u].id = 1
    /\ result[u].mutated
    /\ result[u].seq > req[c].seq
    /\ {r.name : r \in BagToSet(TagsWhere(tags, 1))} = {<<"a">>, <<"b">>}

\* C28: two Deletes of the same quote are never both answered with success;
\* and when the two are the only requests so far and the quote was in the
\* store from the start, so that they ran one after the other or next to
\* each other on an existing quote, and the storage did not fail, exactly one
\* has returned true (204) and the other false (404).
C28_OneDeleteWins ==
  \A p \in Procs, q \in Procs :
    ( /\ p # q
      /\ pc[p] = "done" /\ result[p].op = "delete"
      /\ pc[q] = "done" /\ result[q].op = "delete"
      /\ result[p].id = result[q].id )
    => /\ ~(result[p].status = "Ok" /\ result[q].status = "Ok")
       /\ ( /\ result[p].id = 1
            /\ {result[p].seq, result[q].seq} = {1, 2}
            /\ {result[p].status, result[q].status} \subseteq {"Ok", "NotFound"} )
          => /\ {result[p].status, result[q].status} = {"Ok", "NotFound"}
             /\ {result[p].http, result[q].http} = {204, 404}
             /\ {result[p].rows_affected, result[q].rows_affected} = {1, 0}

\* The Delete that arrived first has returned false and the one that
\* arrived second true: the second deleted the quote while the first was
\* between its existence check and its DELETE.
C28_Witness ==
  \E p \in Procs, q \in Procs :
    /\ Answered(p, "delete", "NotFound")
    /\ Answered(q, "delete", "Ok")
    /\ result[p].id = 1
    /\ result[q].id = 1
    /\ result[p].seq = 1
    /\ result[q].seq = 2
    /\ result[p].http = 404
    /\ result[q].http = 204

\* C30: an Update whose request has no tags field and that returns success
\* returns an empty tag list and leaves the quote without any tag row: the
\* tags the quote had are removed, not kept.
C30_UpdateWithoutTagsClearsThem ==
  [][ \A p \in Procs :
        ( /\ Updating(p)
          /\ ~req[p].tags_some
          /\ pc'[p] = "done"
          /\ result'[p].status = "Ok" )
        => /\ result'[p].body[1].tags = <<>>
           /\ TagsWhere(tags', req[p].id) = EmptyBag ]_vars

\* The imported quote, tagged a, was updated by a request without tags: the
\* answer lists no tag and the store has no tag row left.
C30_Witness ==
  \E u \in Procs :
    /\ Answered(u, "update", "Ok")
    /\ Latest(u)
    /\ result[u].seq = 1
    /\ result[u].id = 1
    /\ result[u].rows_affected = 1
    /\ result[u].mutated
    /\ result[u].body[1].tags = <<>>
    /\ tags = EmptyBag

====
